---- MODULE Spec2Model ----
(***************************************************************************)
(* A model of gramex/handlers/datahandler.py (DataHandler, driver          *)
(* sqlalchemy): the parameter resolver getq, the condition parser          *)
(* _sqlalchemy_wheres, the query compiler _sqlalchemy, the mutation        *)
(* compilers, the module-level connection cache `drivers` and the          *)
(* renderer _render, with the request coroutines get/post/put/delete that  *)
(* hand the blocking step to the thread pool.                              *)
(*                                                                         *)
(* Python strings are sequences of one-character strings, so that the      *)
(* regular expressions and the LIKE patterns are computed character by     *)
(* character.  A Python scalar is a record tagged "str" or "int"; a value  *)
(* that may be None is a record with a `none` flag.                        *)
(***************************************************************************)
EXTENDS Integers, Sequences, FiniteSets, TLC

VARIABLES
    qconfig,    \* cls.qconfig: 'query' (overrides) and 'default', per clause
    drivers,    \* the module-level dict `drivers`: driver_key -> engine
    engines,    \* how many engines sa.create_engine has returned so far
    table,      \* the rows of the backend table
    dialect,    \* the backend params['url'] names: its LIKE is or is not case sensitive
    handler,    \* the DataHandler instance of each request
    call        \* one call of a method under test: its arguments and result

vars == <<qconfig, drivers, engines, table, dialect, handler, call>>

(***************************************************************************)
(* Bounds of the model.                                                    *)
(***************************************************************************)
MaxLen == 4          \* longest where expression drawn character by character
MaxRequests == 2     \* requests served one after the other
NumThreads == 2      \* requests in flight together on the worker pool
MaxFormats == 3      \* longest format list handed to the renderer
MaxText == 2         \* longest cell text and search text of a LIKE test

(***************************************************************************)
(* Python values.                                                          *)
(***************************************************************************)
PyStr(s) == [t |-> "str", s |-> s, n |-> 0]
PyInt(n) == [t |-> "int", s |-> <<>>, n |-> n]
PyNone == [t |-> "none", s |-> <<>>, n |-> 0]

\* bool(x) of a scalar: '', 0 and None are false
Truthy(x) ==
    CASE x.t = "int" -> x.n # 0
      [] x.t = "str" -> Len(x.s) > 0
      [] OTHER       -> FALSE

None == [none |-> TRUE, items |-> <<>>]
List(items) == [none |-> FALSE, items |-> items]

\* bool(v) of None or a list: None and [] are false
ListTruthy(v) == ~v.none /\ Len(v.items) > 0

\* Python's `a or b`
Or(a, b) == IF ListTruthy(a) THEN a ELSE b

Clauses == {"select", "where", "groupby", "agg", "offset", "limit", "sort", "val", "format"}

(***************************************************************************)
(* setup: the normalisation of kwargs['query'] and kwargs['default'].      *)
(* A raw configured value is absent, a list, a dict (a sequence of         *)
(* key/value pairs), a scalar, or of another type (a float, None).         *)
(***************************************************************************)
delims(key) ==
    CASE key \in {"agg", "sort"} -> <<":">>
      [] key = "where"          -> <<>>

nojoins == {"select", "groupby"}

RECURSIVE JoinPairs(_, _)
JoinPairs(key, pairs) ==
    IF pairs = <<>> THEN <<>>
    ELSE <<IF key \in nojoins THEN Head(pairs)[1]
           ELSE PyStr(Head(pairs)[1].s \o delims(key) \o Head(pairs)[2].s)>>
         \o JoinPairs(key, Tail(pairs))

NormalizeValue(key, raw) ==
    CASE raw.kind = "list"   -> List(raw.items)
      [] raw.kind = "dict"   -> List(JoinPairs(key, raw.pairs))
      [] raw.kind = "scalar" -> List(<<raw.items[1]>>)
      [] OTHER               -> None

\* qconfig[q] is left as it is when it is empty, and rebuilt key by key otherwise
Normalize(rawdict) ==
    [c \in Clauses |-> IF rawdict[c].kind = "absent" THEN None
                       ELSE NormalizeValue(c, rawdict[c])]

setup(rawquery, rawdefault) ==
    [query |-> Normalize(rawquery), default |-> Normalize(rawdefault)]

Absent == [kind |-> "absent", items |-> <<>>, pairs |-> <<>>]
RawList(items) == [kind |-> "list", items |-> items, pairs |-> <<>>]
RawDict(pairs) == [kind |-> "dict", items |-> <<>>, pairs |-> pairs]
RawScalar(x) == [kind |-> "scalar", items |-> <<x>>, pairs |-> <<>>]
RawOther == [kind |-> "other", items |-> <<>>, pairs |-> <<>>]

NoConfig == [c \in Clauses |-> Absent]

(***************************************************************************)
(* get_arguments: the request's values of a name, each stripped of         *)
(* leading and trailing blanks; [] when the name was not sent.             *)
(***************************************************************************)
RECURSIVE LStrip(_)
LStrip(s) == IF s # <<>> /\ Head(s) = " " THEN LStrip(Tail(s)) ELSE s

RECURSIVE RStrip(_)
RStrip(s) ==
    IF s # <<>> /\ s[Len(s)] = " " THEN RStrip(SubSeq(s, 1, Len(s) - 1)) ELSE s

Strip(s) == RStrip(LStrip(s))

get_arguments(arguments, key) ==
    List([i \in 1..Len(arguments[key]) |-> PyStr(Strip(arguments[key][i]))])

NoArguments == [c \in Clauses |-> <<>>]

(***************************************************************************)
(* getq: override, then request, then default, then the caller's fallback. *)
(***************************************************************************)
getq_RequestFirst(qc, arguments, key, default_value) ==
    Or(Or(Or(get_arguments(arguments, key), qc.query[key]),
          qc.default[key]),
       default_value)

getq(qc, arguments, key, default_value) ==
    Or(Or(Or(qc.query[key], get_arguments(arguments, key)),
          qc.default[key]),
       default_value)

(***************************************************************************)
(* The resolver on its own: every configuration of one clause, every       *)
(* request value list and every fallback, then one call of getq.           *)
(***************************************************************************)
NotCalled == [fn |-> "none"]

ResolverKeys == {"where", "sort"}

ResolverRaw ==
    { Absent, RawOther, RawList(<<>>), RawDict(<<>>),
      RawList(<<PyStr(<<"a", "=", "1">>)>>),
      RawList(<<PyStr(<<"b", "=", "2">>), PyStr(<<"a", "=", "1">>)>>),
      RawScalar(PyStr(<<"a">>)), RawScalar(PyStr(<<>>)), RawScalar(PyInt(0)),
      RawDict(<<<<PyStr(<<"a">>), PyStr(<<"=", "1">>)>>>>) }

ResolverRequests ==
    { <<>>, <<<<>>>>, <<<<"a", "=", "1">>>>, <<<<" ", "b", "=", "2">>, <<"a", "=", "1">>>> }

ResolverFallbacks == { None, List(<<>>), List(<<PyInt(100)>>) }

InitResolver ==
    /\ \E key \in ResolverKeys, o \in ResolverRaw, d \in ResolverRaw :
          qconfig = setup([NoConfig EXCEPT ![key] = o], [NoConfig EXCEPT ![key] = d])
    /\ drivers = <<>>
    /\ engines = 0
    /\ table = <<>>
    /\ dialect = "sqlite"
    /\ handler = <<>>
    /\ call = NotCalled

CallGetq ==
    /\ call = NotCalled
    /\ \E key \in ResolverKeys, r \in ResolverRequests, f \in ResolverFallbacks :
          call' = [fn |-> "getq", key |-> key,
                   request |-> get_arguments([NoArguments EXCEPT ![key] = r], key),
                   fallback |-> f,
                   ret |-> getq(qconfig, [NoArguments EXCEPT ![key] = r], key, f)]
    /\ UNCHANGED <<qconfig, drivers, engines, table, dialect, handler>>

NextResolver == CallGetq

SpecResolver == InitResolver /\ [][NextResolver]_vars

\* C2: getq returns the first non-empty of override, request values, default
\* and fallback, in that order: the override verbatim whenever it is
\* non-empty, the request values when only the override is empty, the default
\* when both are empty, and the fallback when the default is empty too.
GetqPrecedence ==
    call.fn = "getq" =>
        LET O == qconfig.query[call.key]
            R == call.request
            D == qconfig.default[call.key]
            F == call.fallback
            Empty(v) == v.none \/ v.items = <<>>
        IN  /\ ~Empty(O) => call.ret = O
            /\ Empty(O) /\ ~Empty(R) => call.ret = R
            /\ Empty(O) /\ Empty(R) /\ ~Empty(D) => call.ret = D
            /\ Empty(O) /\ Empty(R) /\ Empty(D) => call.ret = F

\* an override and request values are both given and differ
GetqOverrideWins ==
    /\ call.fn = "getq"
    /\ ListTruthy(qconfig.query[call.key])
    /\ ListTruthy(call.request)
    /\ call.request # qconfig.query[call.key]
    /\ ListTruthy(qconfig.default[call.key])
    /\ call.ret = qconfig.query[call.key]

(***************************************************************************)
(* wh_re = ([^=><~!]+)([=><~!]{1,2})([\s\S]+), used with search: the       *)
(* leftmost start that matches; at that start the longest first group,     *)
(* then the longest second group (greedy, with backtracking), the third    *)
(* group taking the rest of the string.                                    *)
(***************************************************************************)
OperChars == {"=", ">", "<", "~", "!"}

AllIn(s, from, to, S) == \A k \in from..to : s[k] \in S

AllOutside(s, from, to, S) == \A k \in from..to : s[k] \notin S

\* a match starts at i, with groups of n1 and n2 characters and a non-empty rest
wh_re_matches(s, i, n1, n2) ==
    /\ n1 >= 1 /\ n2 \in {1, 2}
    /\ i + n1 + n2 <= Len(s)
    /\ AllOutside(s, i, i + n1 - 1, OperChars)
    /\ AllIn(s, i + n1, i + n1 + n2 - 1, OperChars)

Max(S) == CHOOSE x \in S : \A y \in S : y <= x

Min(S) == CHOOSE x \in S : \A y \in S : x <= y

NoMatch == [matched |-> FALSE, col |-> <<>>, oper |-> <<>>, val |-> <<>>]

wh_re_starts(s) ==
    {i \in 1..Len(s) : \E n1 \in 1..Len(s), n2 \in {1, 2} : wh_re_matches(s, i, n1, n2)}

wh_re_groups(s, i, n1, n2) ==
    [matched |-> TRUE,
     col  |-> SubSeq(s, i, i + n1 - 1),
     oper |-> SubSeq(s, i + n1, i + n1 + n2 - 1),
     val  |-> SubSeq(s, i + n1 + n2, Len(s))]

\* the second group is as long as the match allows
wh_re_second(s, i, n1) ==
    wh_re_groups(s, i, n1, Max({n \in {1, 2} : wh_re_matches(s, i, n1, n)}))

\* the first group is as long as the match allows
wh_re_first(s, i) ==
    wh_re_second(s, i, Max({n \in 1..Len(s) : \E n2 \in {1, 2} : wh_re_matches(s, i, n, n2)}))

wh_re_search(s) ==
    IF wh_re_starts(s) = {} THEN NoMatch ELSE wh_re_first(s, Min(wh_re_starts(s)))

(***************************************************************************)
(* _sqlalchemy_wheres: one condition per expression that matches and whose *)
(* operator is one of the branches; table.c[col] raises KeyError for a     *)
(* column the table does not have, and re.search raises TypeError for a    *)
(* configured value that is no string.                                     *)
(***************************************************************************)
TableColumns == {<<"a">>, <<"b">>}

Cond(col, op, val) == [col |-> col, op |-> op, val |-> val]

\* the branch taken for an operator: the conditions it appends
Branch(col, oper, val) ==
    CASE oper \in {<<"=", "=">>, <<"=">>} -> <<Cond(col, "eq", val)>>
      [] oper = <<">", "=">>             -> <<Cond(col, "ge", val)>>
      [] oper = <<"<", "=">>             -> <<Cond(col, "le", val)>>
      [] oper = <<">">>                  -> <<Cond(col, "gt", val)>>
      [] oper = <<"<">>                  -> <<Cond(col, "lt", val)>>
      [] oper = <<"!", "=">>             -> <<Cond(col, "ne", val)>>
      [] oper = <<"~">>                  -> <<Cond(col, "ilike", <<"%">> \o val \o <<"%">>)>>
      [] oper = <<"!", "~">>             -> <<Cond(col, "notlike", <<"%">> \o val \o <<"%">>)>>
      [] OTHER                           -> <<>>

Wheres(error, conds) == [error |-> error, conds |-> conds]

\* the conditions of one expression before those of the rest, or the rest's error
Conjoin(conds, rest) ==
    IF rest.error # "none" THEN rest ELSE Wheres("none", conds \o rest.conds)

RECURSIVE _sqlalchemy_wheres(_)

\* one turn of the loop: `match` is wh_re.search(where)
Where(match, others) ==
    IF ~match.matched THEN _sqlalchemy_wheres(others)
    ELSE IF match.col \notin TableColumns THEN Wheres("KeyError", <<>>)
    ELSE Conjoin(Branch(match.col, match.oper, match.val), _sqlalchemy_wheres(others))

_sqlalchemy_wheres(_wheres) ==
    IF _wheres = <<>> THEN Wheres("none", <<>>)
    ELSE IF Head(_wheres).t # "str" THEN Wheres("TypeError", <<>>)
    ELSE Where(wh_re_search(Head(_wheres).s), Tail(_wheres))

(***************************************************************************)
(* The backend's evaluation of a condition on a row.  A cell is NULL or a  *)
(* text; a comparison with NULL selects nothing.  LIKE takes % for any run *)
(* of characters and _ for any one character; ilike lowers both sides, and *)
(* a plain LIKE (notlike) is case sensitive or not as the backend has it.  *)
(***************************************************************************)
Null == [null |-> TRUE, s |-> <<>>]
Text(s) == [null |-> FALSE, s |-> s]

\* the table as the requests find it: the rows (a, b) = ('1', NULL), ('2', '1')
InitialTable ==
    <<[c \in {<<"a">>, <<"b">>} |-> IF c = <<"a">> THEN Text(<<"1">>) ELSE Null],
      [c \in {<<"a">>, <<"b">>} |-> IF c = <<"a">> THEN Text(<<"2">>) ELSE Text(<<"1">>)]>>

CharOrder ==
    <<" ", "!", "%", "(", ")", "0", "1", "2", ":", "<", "=", ">", "A", "_", "a", "b", "~">>

Rank(c) == CHOOSE i \in 1..Len(CharOrder) : CharOrder[i] = c

RECURSIVE Less(_, _)
Less(x, y) ==
    IF y = <<>> THEN FALSE
    ELSE IF x = <<>> THEN TRUE
    ELSE IF Head(x) = Head(y) THEN Less(Tail(x), Tail(y))
    ELSE Rank(Head(x)) < Rank(Head(y))

LowerChar(c) == IF c = "A" THEN "a" ELSE c

Lower(s) == [i \in 1..Len(s) |-> LowerChar(s[i])]

RECURSIVE LikeMatch(_, _)
LikeMatch(s, pattern) ==
    IF pattern = <<>> THEN s = <<>>
    ELSE IF Head(pattern) = "%"
         THEN LikeMatch(s, Tail(pattern)) \/ (s # <<>> /\ LikeMatch(Tail(s), pattern))
    ELSE IF Head(pattern) = "_"
         THEN s # <<>> /\ LikeMatch(Tail(s), Tail(pattern))
    ELSE s # <<>> /\ Head(s) = Head(pattern) /\ LikeMatch(Tail(s), Tail(pattern))

LikeCaseSensitive(d) == d = "postgresql"

Like(d, s, pattern) ==
    IF LikeCaseSensitive(d) THEN LikeMatch(s, pattern)
    ELSE LikeMatch(Lower(s), Lower(pattern))

Compare(d, cond, cell) ==
        /\ ~cell.null
        /\ CASE cond.op = "eq"      -> cell.s = cond.val
             [] cond.op = "ne"      -> cell.s # cond.val
             [] cond.op = "gt"      -> Less(cond.val, cell.s)
             [] cond.op = "lt"      -> Less(cell.s, cond.val)
             [] cond.op = "ge"      -> ~Less(cell.s, cond.val)
             [] cond.op = "le"      -> ~Less(cond.val, cell.s)
             [] cond.op = "ilike"   -> LikeMatch(Lower(cell.s), Lower(cond.val))
             [] cond.op = "notlike" -> ~Like(d, cell.s, cond.val)

Holds(d, cond, row) == Compare(d, cond, row[cond.col])

\* sa.and_(*wheres): every condition holds; with no condition, every row
HoldsAll(d, conds, row) == \A k \in 1..Len(conds) : Holds(d, conds[k], row)

Strings(alphabet, n) == UNION {[1..k -> alphabet] : k \in 0..n}

(***************************************************************************)
(* The condition parser on its own: one expression, every string of up to  *)
(* MaxLen characters over a column letter, a digit and the operator        *)
(* characters.                                                             *)
(***************************************************************************)
WhereAlphabet == {"a", "1"} \cup OperChars

InitIdle ==
    /\ qconfig = setup(NoConfig, NoConfig)
    /\ drivers = <<>>
    /\ engines = 0
    /\ table = InitialTable
    /\ dialect \in {"sqlite", "postgresql"}
    /\ handler = <<>>
    /\ call = NotCalled

CallWheres ==
    /\ call = NotCalled
    /\ \E s \in Strings(WhereAlphabet, MaxLen) :
          call' = [fn |-> "wheres", expr |-> s,
                   ret |-> _sqlalchemy_wheres(<<PyStr(s)>>)]
    /\ UNCHANGED <<qconfig, drivers, engines, table, dialect, handler>>

NextWheres == CallWheres

SpecWheres == InitIdle /\ [][NextWheres]_vars

\* the grammar as the specification words it
Operators ==
    {<<"=", "=">>, <<"=">>, <<">", "=">>, <<"<", "=">>, <<">">>, <<"<">>,
     <<"!", "=">>, <<"!", "~">>, <<"~">>}

IsPrefixAt(o, s, i) == i + Len(o) - 1 <= Len(s) /\ SubSeq(s, i, i + Len(o) - 1) = o

HasOperChar(s) == \E i \in 1..Len(s) : s[i] \in OperChars

FirstOperChar(s) == Min({i \in 1..Len(s) : s[i] \in OperChars})

OperatorsAt(s, i) == {o \in Operators : IsPrefixAt(o, s, i)}

LongestOperatorAt(s, i) ==
    CHOOSE o \in OperatorsAt(s, i) : \A p \in OperatorsAt(s, i) : Len(p) <= Len(o)

\* a column, then an operator of the set at the first operator character
HasOperator(s) ==
    /\ HasOperChar(s)
    /\ FirstOperChar(s) > 1
    /\ OperatorsAt(s, FirstOperChar(s)) # {}

\* column, operator and a value of at least one character
HasForm(s) ==
    /\ HasOperator(s)
    /\ FirstOperChar(s) + Len(LongestOperatorAt(s, FirstOperChar(s))) <= Len(s)

\* C4: the parser yields a condition exactly for column, operator, value:
\* the column is all before the first operator character, the operator the
\* longest one of the set starting there, the value all after it; any other
\* expression gives no condition and no error.  Nothing is asked of an
\* expression that ends with its operator, nor of a column the table lacks.
WheresGrammar ==
    call.fn = "wheres" =>
        LET s == call.expr
        IN  IF HasForm(s)
            THEN LET i == FirstOperChar(s)
                     o == LongestOperatorAt(s, i)
                     col == SubSeq(s, 1, i - 1)
                 IN  col \in TableColumns =>
                        call.ret = Wheres("none",
                                          Branch(col, o, SubSeq(s, i + Len(o), Len(s))))
            ELSE IF HasOperator(s) THEN TRUE
            ELSE call.ret = Wheres("none", <<>>)

(***************************************************************************)
(* 'a~text' and 'a!~text' compiled by the parser and evaluated on one row  *)
(* by the backend.                                                         *)
(***************************************************************************)
CellAlphabet == {"a", "A", "b"}

SearchAlphabet == {"a", "A", "%"}

Cells == {Null} \cup {Text(s) : s \in Strings(CellAlphabet, MaxText)}

RowOf(cell) == [c \in TableColumns |-> IF c = <<"a">> THEN cell ELSE Null]

\* the row is selected by the conditions compiled from the one expression
Selects(expr, row) == HoldsAll(dialect, _sqlalchemy_wheres(<<PyStr(expr)>>).conds, row)

CallLike ==
    /\ call = NotCalled
    /\ \E cell \in Cells, text \in Strings(SearchAlphabet, MaxText) \ {<<>>} :
          call' = [fn |-> "like", cell |-> cell, text |-> text,
                   like |-> Selects(<<"a", "~">> \o text, RowOf(cell)),
                   notlike |-> Selects(<<"a", "!", "~">> \o text, RowOf(cell))]
    /\ UNCHANGED <<qconfig, drivers, engines, table, dialect, handler>>

NextLike == CallLike

SpecLike == InitIdle /\ [][NextLike]_vars

\* s contains t, letter case ignored
ContainsIgnoreCase(s, t) ==
    \E i \in 1..(Len(s) - Len(t) + 1) : Lower(SubSeq(s, i, i + Len(t) - 1)) = Lower(t)

\* C7: on every row whose column holds a text, 'col!~value' holds exactly
\* when 'col~value' does not, 'col~value' being the case-insensitive test
\* that the column contains value (value without LIKE wildcards).
NotLikeIsNegation ==
    (call.fn = "like" /\ ~call.cell.null /\ AllOutside(call.text, 1, Len(call.text), {"%", "_"})) =>
        /\ call.like = ContainsIgnoreCase(call.cell.s, call.text)
        /\ call.notlike = ~call.like

(***************************************************************************)
(* agg_re = ([^:]+):([aA-zZ]+)\(([^:]+)\), used with search.  The class    *)
(* [aA-zZ] is 'a', the range 'A' to 'z' and 'Z': the letters and the six   *)
(* characters between 'Z' and 'a' (the backslash and the backquote are     *)
(* left out here: no input of the model holds one).                        *)
(***************************************************************************)
AggLetters ==
    {"A", "B", "C", "D", "E", "F", "G", "H", "I", "J", "K", "L", "M", "N", "O", "P",
     "Q", "R", "S", "T", "U", "V", "W", "X", "Y", "Z", "[", "]", "^", "_",
     "a", "b", "c", "d", "e", "f", "g", "h", "i", "j", "k", "l", "m", "n", "o", "p",
     "q", "r", "s", "t", "u", "v", "w", "x", "y", "z"}

\* a match starts at i with groups of n1, n2 and n3 characters
agg_re_matches(s, i, n1, n2, n3) ==
    /\ n1 >= 1 /\ n2 >= 1 /\ n3 >= 1
    /\ i + n1 + n2 + n3 + 2 <= Len(s)
    /\ AllOutside(s, i, i + n1 - 1, {":"})
    /\ s[i + n1] = ":"
    /\ AllIn(s, i + n1 + 1, i + n1 + n2, AggLetters)
    /\ s[i + n1 + n2 + 1] = "("
    /\ AllOutside(s, i + n1 + n2 + 2, i + n1 + n2 + n3 + 1, {":"})
    /\ s[i + n1 + n2 + n3 + 2] = ")"

NoAgg == [matched |-> FALSE, name |-> <<>>, oper |-> <<>>, col |-> <<>>]

agg_re_starts(s) ==
    {i \in 1..Len(s) :
        \E n1 \in 1..Len(s), n2 \in 1..Len(s), n3 \in 1..Len(s) : agg_re_matches(s, i, n1, n2, n3)}

agg_re_groups(s, i, n1, n2, n3) ==
    [matched |-> TRUE,
     name |-> SubSeq(s, i, i + n1 - 1),
     oper |-> SubSeq(s, i + n1 + 1, i + n1 + n2),
     col  |-> SubSeq(s, i + n1 + n2 + 2, i + n1 + n2 + n3 + 1)]

agg_re_third(s, i, n1, n2) ==
    agg_re_groups(s, i, n1, n2, Max({n \in 1..Len(s) : agg_re_matches(s, i, n1, n2, n)}))

agg_re_second(s, i, n1) ==
    agg_re_third(s, i, n1,
                 Max({n \in 1..Len(s) : \E n3 \in 1..Len(s) : agg_re_matches(s, i, n1, n, n3)}))

agg_re_first(s, i) ==
    agg_re_second(s, i,
                  Max({n \in 1..Len(s) :
                         \E n2 \in 1..Len(s), n3 \in 1..Len(s) : agg_re_matches(s, i, n, n2, n3)}))

agg_re_search(s) ==
    IF agg_re_starts(s) = {} THEN NoAgg ELSE agg_re_first(s, Min(agg_re_starts(s)))

(***************************************************************************)
(* _sqlalchemy: the select it compiles.  A projected column is a table     *)
(* column or a labelled aggregate; `key` is the name `selects` filters by. *)
(***************************************************************************)
TableColumnSeq == <<<<"a">>, <<"b">>>>

Column(name) == [key |-> name, func |-> "column", col |-> name]

Label(name, func, col) == [key |-> name, func |-> func, col |-> col]

\* safuncs, with nunique compiled as a count of the distinct values
safuncs(oper) ==
    CASE oper = <<"m", "i", "n">>                     -> "min"
      [] oper = <<"m", "a", "x">>                     -> "max"
      [] oper = <<"s", "u", "m">>                     -> "sum"
      [] oper = <<"c", "o", "u", "n", "t">>           -> "count"
      [] oper = <<"m", "e", "a", "n">>                -> "avg"
      [] oper = <<"n", "u", "n", "i", "q", "u", "e">> -> "count_distinct"
      [] OTHER                                        -> "KeyError"

Strs(v) == [i \in 1..Len(v.items) |-> v.items[i].s]

InSeq(x, seq) == \E k \in 1..Len(seq) : seq[k] = x

RECURSIVE Filter(_, _)
Filter(seq, keys) ==
    IF seq = <<>> THEN <<>>
    ELSE (IF InSeq(Head(seq).key, keys) THEN <<Head(seq)>> ELSE <<>>)
         \o Filter(Tail(seq), keys)

Columns(error, columns) == [error |-> error, columns |-> columns]

\* the aggregate of one spec before those of the rest, or the rest's error
Prepend(column, rest) ==
    IF rest.error # "none" THEN rest ELSE Columns("none", <<column>> \o rest.columns)

\* the aggregates the loop over _aggs appends, or the first error it raises
RECURSIVE Aggregates(_)

\* one turn of the loop: `match` is agg_re.search(agg)
AggregateOf(match, others) ==
    IF ~match.matched THEN Aggregates(others)
    ELSE IF safuncs(match.oper) = "KeyError" THEN Columns("KeyError", <<>>)
    ELSE IF match.col \notin TableColumns THEN Columns("KeyError", <<>>)
    ELSE Prepend(Label(match.name, safuncs(match.oper), match.col), Aggregates(others))

Aggregates(aggs) ==
    IF aggs = <<>> THEN Columns("none", <<>>)
    ELSE AggregateOf(agg_re_search(Head(aggs)), Tail(aggs))

\* sort.partition(':')[::2]: the text before the first colon and the text after it
SplitAt(s, i) == <<SubSeq(s, 1, i - 1), SubSeq(s, i + 1, Len(s))>>

Partition(s) ==
    IF \E i \in 1..Len(s) : s[i] = ":"
    THEN SplitAt(s, Min({k \in 1..Len(s) : s[k] = ":"}))
    ELSE <<s, <<>>>>

\* x.split('=', 1) of a text that holds '=': the key and the value
Partition2(s) == SplitAt(s, Min({k \in 1..Len(s) : s[k] = "="}))

Sorts(sorts) ==
    [k \in 1..Len(sorts) |->
        [col |-> Partition(sorts[k])[1],
         desc |-> Partition(sorts[k])[2] = <<"d", "e", "s", "c">>]]

\* util.asint of the value handed to offset() and limit()
Digits == <<"0", "1", "2", "3", "4", "5", "6", "7", "8", "9">>

IsDigit(c) == \E d \in 1..10 : Digits[d] = c

DigitValue(c) == (CHOOSE d \in 1..10 : Digits[d] = c) - 1

RECURSIVE Decimal(_)
Decimal(s) ==
    IF s = <<>> THEN 0 ELSE 10 * Decimal(SubSeq(s, 1, Len(s) - 1)) + DigitValue(s[Len(s)])

asint(x) ==
    CASE x.t = "int" -> [error |-> "none", n |-> x.n]
      [] x.t = "str" /\ x.s # <<>> /\ \A k \in 1..Len(x.s) : IsDigit(x.s[k])
                     -> [error |-> "none", n |-> Decimal(x.s)]
      [] x.t = "str" /\ Len(x.s) > 1 /\ x.s[1] = "-"
                     /\ \A k \in 2..Len(x.s) : IsDigit(x.s[k])
                     -> [error |-> "none", n |-> 0 - Decimal(Tail(x.s))]
      [] OTHER       -> [error |-> "ValueError", n |-> 0]

Unset == [set |-> FALSE, n |-> 0]

Set(n) == [set |-> TRUE, n |-> n]

Failed(error) ==
    [error |-> error, columns |-> <<>>, filtered |-> FALSE, where |-> <<>>,
     group_by |-> <<>>, order_by |-> <<>>, offset |-> Unset, limit |-> Unset]

Projected(error, columns, group_by) ==
    [error |-> error, columns |-> columns, group_by |-> group_by]

ColumnsOf(names) == [k \in 1..Len(names) |-> Column(names[k])]

Unknown(names) == \E k \in 1..Len(names) : names[k] \notin TableColumns

\* lines 153-175: aggs are the aggregates of the loop over _aggs
Grouped_NoNarrowing(selects, groups, aggs) ==
    IF Unknown(groups) THEN Projected("KeyError", <<>>, <<>>)
    ELSE IF aggs.error # "none" THEN Projected(aggs.error, <<>>, <<>>)
    ELSE Projected("none", ColumnsOf(groups) \o aggs.columns, groups)

Grouped(selects, groups, aggs) ==
    IF Unknown(groups) THEN Projected("KeyError", <<>>, <<>>)
    ELSE IF aggs.error # "none" THEN Projected(aggs.error, <<>>, <<>>)
    ELSE IF selects # <<>>
    THEN Projected("none", Filter(ColumnsOf(groups) \o aggs.columns, selects), groups)
    ELSE Projected("none", ColumnsOf(groups) \o aggs.columns, groups)

\* lines 177-180
Plain(selects) ==
    IF selects = <<>> THEN Projected("none", ColumnsOf(TableColumnSeq), <<>>)
    ELSE IF Unknown(selects) THEN Projected("KeyError", <<>>, <<>>)
    ELSE Projected("none", ColumnsOf(selects), <<>>)

\* the projection and grouping of lines 152-182
Projection(_selects, _groups, _aggs) ==
    IF ListTruthy(_groups) /\ ListTruthy(_aggs)
    THEN Grouped(IF ListTruthy(_selects) THEN Strs(_selects) ELSE <<>>,
                 Strs(_groups), Aggregates(Strs(_aggs)))
    ELSE Plain(IF ListTruthy(_selects) THEN Strs(_selects) ELSE <<>>)

\* offset() and limit() are called for a true value only
Bound(x) ==
    IF ~Truthy(x) THEN [error |-> "none", bound |-> Unset]
    ELSE IF asint(x).error # "none" THEN [error |-> asint(x).error, bound |-> Unset]
    ELSE [error |-> "none", bound |-> Set(asint(x).n)]

Query(wheres, filtered, proj, order_by, offset, limit) ==
    IF wheres.error # "none" THEN Failed(wheres.error)
    ELSE IF proj.error # "none" THEN Failed(proj.error)
    ELSE IF offset.error # "none" THEN Failed(offset.error)
    ELSE IF limit.error # "none" THEN Failed(limit.error)
    ELSE [error    |-> "none",
          columns  |-> proj.columns,
          filtered |-> filtered,
          where    |-> wheres.conds,
          group_by |-> proj.group_by,
          order_by |-> order_by,
          offset   |-> offset.bound,
          limit    |-> limit.bound]

\* kw: _selects, _wheres, _groups, _aggs, _sorts (None or a list), _offset, _limit (scalars)
_sqlalchemy(kw) ==
    Query(IF ListTruthy(kw._wheres) THEN _sqlalchemy_wheres(kw._wheres.items)
          ELSE Wheres("none", <<>>),
          ListTruthy(kw._wheres),
          Projection(kw._selects, kw._groups, kw._aggs),
          IF ListTruthy(kw._sorts) THEN Sorts(Strs(kw._sorts)) ELSE <<>>,
          Bound(kw._offset),
          Bound(kw._limit))

(***************************************************************************)
(* pd.read_sql_query: the backend's evaluation of a compiled select on the *)
(* table: filter, group, order, offset, limit, projection.  An aggregate   *)
(* of digit texts is computed on their numbers; avg is left as the exact   *)
(* quotient sum/count.                                                     *)
(***************************************************************************)
RECURSIVE ToDigits(_)
ToDigits(n) == IF n < 10 THEN <<Digits[n + 1]>> ELSE ToDigits(n \div 10) \o <<Digits[(n % 10) + 1]>>

RECURSIVE Matching(_, _, _)
Matching(d, conds, rows) ==
    IF rows = <<>> THEN <<>>
    ELSE (IF HoldsAll(d, conds, Head(rows)) THEN <<Head(rows)>> ELSE <<>>)
         \o Matching(d, conds, Tail(rows))

RECURSIVE NotMatching(_, _, _)
NotMatching(d, conds, rows) ==
    IF rows = <<>> THEN <<>>
    ELSE (IF HoldsAll(d, conds, Head(rows)) THEN <<>> ELSE <<Head(rows)>>)
         \o NotMatching(d, conds, Tail(rows))

RECURSIVE NonNull(_)
NonNull(cells) ==
    IF cells = <<>> THEN <<>>
    ELSE (IF Head(cells).null THEN <<>> ELSE <<Head(cells).s>>) \o NonNull(Tail(cells))

RECURSIVE Sum(_)
Sum(texts) == IF texts = <<>> THEN 0 ELSE Decimal(Head(texts)) + Sum(Tail(texts))

Range(seq) == {seq[k] : k \in 1..Len(seq)}

AggregateTexts(func, texts) ==
    CASE func = "count"          -> Text(ToDigits(Len(texts)))
      [] func = "count_distinct" -> Text(ToDigits(Cardinality(Range(texts))))
      [] texts = <<>>            -> Null
      [] func = "min"            -> Text(CHOOSE x \in Range(texts) : \A y \in Range(texts) : ~Less(y, x))
      [] func = "max"            -> Text(CHOOSE x \in Range(texts) : \A y \in Range(texts) : ~Less(x, y))
      [] func = "sum"            -> Text(ToDigits(Sum(texts)))
      [] func = "avg"            -> Text(ToDigits(Sum(texts)) \o <<"/">> \o ToDigits(Len(texts)))

Aggregate(func, cells) == AggregateTexts(func, NonNull(cells))

GroupKey(group_by, row) == [k \in 1..Len(group_by) |-> row[group_by[k]]]

\* the group keys in the order of their first row
RECURSIVE GroupKeys(_, _, _)
GroupKeys(group_by, rows, seen) ==
    IF rows = <<>> THEN <<>>
    ELSE IF GroupKey(group_by, Head(rows)) \in seen THEN GroupKeys(group_by, Tail(rows), seen)
    ELSE <<GroupKey(group_by, Head(rows))>>
         \o GroupKeys(group_by, Tail(rows), seen \cup {GroupKey(group_by, Head(rows))})

RECURSIVE RowsOfKey(_, _, _)
RowsOfKey(group_by, rows, key) ==
    IF rows = <<>> THEN <<>>
    ELSE (IF GroupKey(group_by, Head(rows)) = key THEN <<Head(rows)>> ELSE <<>>)
         \o RowsOfKey(group_by, Tail(rows), key)

\* one output row of a select: a cell per projected column
ProjectRows(columns, rows) ==
    [k \in 1..Len(rows) |-> [j \in 1..Len(columns) |-> rows[k][columns[j].col]]]

GroupRow(columns, members) ==
    [j \in 1..Len(columns) |->
        IF columns[j].func = "column" THEN members[1][columns[j].col]
        ELSE Aggregate(columns[j].func,
                       [m \in 1..Len(members) |-> members[m][columns[j].col]])]

GroupsOf(columns, group_by, rows, keys) ==
    [k \in 1..Len(keys) |-> GroupRow(columns, RowsOfKey(group_by, rows, keys[k]))]

ProjectGroups(columns, group_by, rows) ==
    GroupsOf(columns, group_by, rows, GroupKeys(group_by, rows, {}))

CellLess(x, y) == IF x.null \/ y.null THEN x.null /\ ~y.null ELSE Less(x.s, y.s)

\* row x comes before row y under the order_by list
RECURSIVE Before(_, _, _)

Ordered(lo, hi, others, x, y) ==
    IF CellLess(lo, hi) THEN TRUE
    ELSE IF CellLess(hi, lo) THEN FALSE
    ELSE Before(others, x, y)

Before(order_by, x, y) ==
    IF order_by = <<>> THEN FALSE
    ELSE IF Head(order_by).desc
    THEN Ordered(y[Head(order_by).col], x[Head(order_by).col], Tail(order_by), x, y)
    ELSE Ordered(x[Head(order_by).col], y[Head(order_by).col], Tail(order_by), x, y)

RECURSIVE Insert(_, _, _)
Insert(order_by, row, sorted) ==
    IF sorted = <<>> THEN <<row>>
    ELSE IF Before(order_by, row, Head(sorted)) THEN <<row>> \o sorted
    ELSE <<Head(sorted)>> \o Insert(order_by, row, Tail(sorted))

RECURSIVE Sorted(_, _)
Sorted(order_by, rows) ==
    IF rows = <<>> THEN <<>>
    ELSE Insert(order_by, rows[Len(rows)], Sorted(order_by, SubSeq(rows, 1, Len(rows) - 1)))

\* OFFSET then LIMIT; a negative LIMIT is no limit on sqlite and an error elsewhere
Limited(limit, skipped) ==
    IF limit.set /\ limit.n >= 0 /\ limit.n < Len(skipped)
    THEN SubSeq(skipped, 1, limit.n)
    ELSE skipped

Window(offset, limit, rows) ==
    Limited(limit, IF offset.set THEN SubSeq(rows, offset.n + 1, Len(rows)) ELSE rows)

DataFrame(error, columns, rows) == [error |-> error, columns |-> columns, rows |-> rows]

EmptyDataFrame == DataFrame("none", <<>>, <<>>)

\* the frame of a select on the rows that match, in order
Frame(query, ordered) ==
    IF query.group_by = <<>>
    THEN DataFrame("none", [j \in 1..Len(query.columns) |-> query.columns[j].key],
                   ProjectRows(query.columns, Window(query.offset, query.limit, ordered)))
    ELSE DataFrame("none", [j \in 1..Len(query.columns) |-> query.columns[j].key],
                   Window(query.offset, query.limit,
                          ProjectGroups(query.columns, query.group_by, ordered)))

read_sql_query(d, query, rows) ==
    IF \/ \E k \in 1..Len(query.order_by) : query.order_by[k].col \notin TableColumns
       \/ (query.limit.set /\ query.limit.n < 0 /\ d # "sqlite")
       \/ (query.offset.set /\ query.offset.n < 0)
    THEN DataFrame("OperationalError", <<>>, <<>>)
    ELSE Frame(query, Sorted(query.order_by, Matching(d, query.where, rows)))

(***************************************************************************)
(* The mutation statements.  dict(x.split('=', 1) for x in _vals) raises   *)
(* ValueError for a value without '='; the backend rejects a column the    *)
(* table does not have.  No posttransform is configured.                   *)
(***************************************************************************)
HasEquals(s) == \E i \in 1..Len(s) : s[i] = "="

Key(x) == Partition2(x.s)[1]

\* the dict of the val list: the last value given for a key wins
Content(vals) ==
    IF \E k \in 1..Len(vals) : vals[k].t # "str" THEN [error |-> "AttributeError", dict |-> <<>>]
    ELSE IF \E k \in 1..Len(vals) : ~HasEquals(vals[k].s) THEN [error |-> "ValueError", dict |-> <<>>]
    ELSE [error |-> "none",
          dict |-> [key \in {Key(vals[k]) : k \in 1..Len(vals)} |->
                       Partition2(vals[Max({k \in 1..Len(vals) : Key(vals[k]) = key})].s)[2]]]

\* the row with the cells of `dict` set
WithValues(row, dict) ==
    [c \in TableColumns |-> IF c \in DOMAIN dict THEN Text(dict[c]) ELSE row[c]]

NullRow == [c \in TableColumns |-> Null]

InsertRow(rows, dict) == Append(rows, WithValues(NullRow, dict))

DeleteRows(d, conds, rows) == NotMatching(d, conds, rows)

UpdateRows(d, conds, dict, rows) ==
    [k \in 1..Len(rows) |->
        IF HoldsAll(d, conds, rows[k]) THEN WithValues(rows[k], dict) ELSE rows[k]]

Statement(kind, where, values) == [kind |-> kind, where |-> where, values |-> values]

NoStatement == Statement("none", <<>>, <<>>)

(***************************************************************************)
(* _render: the content type and the content by the resolved format list.  *)
(* The serialised content is the format with the frame it serialises; no   *)
(* 'headers' are configured.                                               *)
(***************************************************************************)
Json == <<"j", "s", "o", "n">>
Csv == <<"c", "s", "v">>
Html == <<"h", "t", "m", "l">>
Xml == <<"x", "m", "l">>

NoContent == [set |-> FALSE, format |-> "none", frame |-> EmptyDataFrame]

ContentOf(format, frame) == [set |-> TRUE, format |-> format, frame |-> frame]

NoHeaders == [content_type |-> "", content_disposition |-> ""]

Rendered(error, headers, content) == [error |-> error, headers |-> headers, content |-> content]

formats_of(qc, arguments) == getq(qc, arguments, "format", List(<<PyStr(Json)>>))

JsonContent(result) ==
    Rendered("none", [NoHeaders EXCEPT !.content_type = "application/json"],
             ContentOf("json", result))

CsvContent(result) ==
    Rendered("none",
             [content_type |-> "text/csv", content_disposition |-> "attachment;filename=file.csv"],
             ContentOf("csv", result))

HtmlContent(result) ==
    Rendered("none", [NoHeaders EXCEPT !.content_type = "text/html"], ContentOf("html", result))

Unsupported == Rendered("NotImplementedError", NoHeaders, NoContent)

RenderAs_CsvFirst(formats, result) ==
    IF InSeq(PyStr(Csv), formats) THEN CsvContent(result)
    ELSE IF InSeq(PyStr(Json), formats) THEN JsonContent(result)
    ELSE IF InSeq(PyStr(Html), formats) THEN HtmlContent(result)
    ELSE Unsupported

\* the if/elif chain of _render on the resolved format list
RenderAs(formats, result) ==
    IF InSeq(PyStr(Json), formats) THEN JsonContent(result)
    ELSE IF InSeq(PyStr(Csv), formats) THEN CsvContent(result)
    ELSE IF InSeq(PyStr(Html), formats) THEN HtmlContent(result)
    ELSE Unsupported

_render(qc, arguments, result) == RenderAs(formats_of(qc, arguments).items, result)

(***************************************************************************)
(* The query compiler on its own: select, groupby, agg and where lists     *)
(* over the table's columns a and b, an alias t and malformed specs.       *)
(***************************************************************************)
ListOf(strings) == List([k \in 1..Len(strings) |-> PyStr(strings[k])])

SumB == <<"t", ":", "s", "u", "m", "(", "b", ")">>
NuniqueA == <<"n", ":", "n", "u", "n", "i", "q", "u", "e", "(", "a", ")">>
CountB == <<"c", ":", "c", "o", "u", "n", "t", "(", "b", ")">>
NoParens == <<"t", ":", "s", "u", "m">>
AvgB == <<"t", ":", "a", "v", "g", "(", "b", ")">>

SelectLists ==
    {<<>>, <<<<"a">>>>, <<<<"t">>>>, <<<<"b">>, <<"a">>>>, <<<<"t">>, <<"a">>>>, <<<<"n">>>>}

GroupLists == {<<>>, <<<<"a">>>>, <<<<"b">>>>, <<<<"a">>, <<"b">>>>, <<<<"z">>>>}

AggLists ==
    {<<>>, <<SumB>>, <<SumB, NuniqueA>>, <<NoParens>>, <<NoParens, CountB>>, <<AvgB>>}

WhereLists == {<<>>, <<<<"a", "=", "1">>>>}

Kwargs(selects, wheres, groups, aggs, offset, limit, sorts) ==
    [_selects |-> selects, _wheres |-> wheres, _groups |-> groups, _aggs |-> aggs,
     _offset |-> offset, _limit |-> limit, _sorts |-> sorts, _vals |-> None]

Read(kw, query) ==
    [fn |-> "select", kw |-> kw, query |-> query,
     ret |-> IF query.error = "none" THEN read_sql_query(dialect, query, table)
             ELSE DataFrame(query.error, <<>>, <<>>)]

Called(kw) == Read(kw, _sqlalchemy(kw))

CallSelect ==
    /\ call = NotCalled
    /\ \E s \in SelectLists, w \in WhereLists, g \in GroupLists, a \in AggLists :
          call' = Called(Kwargs(ListOf(s), ListOf(w), ListOf(g), ListOf(a),
                                PyNone, PyInt(100), None))
    /\ UNCHANGED <<qconfig, drivers, engines, table, dialect, handler>>

NextSelect == CallSelect

SpecSelect == InitIdle /\ [][NextSelect]_vars

\* the aliased aggregate of each spec the aggregate pattern matches, in order
RECURSIVE ParsedAggregates(_)
ParsedAggregates(aggs) ==
    IF aggs = <<>> THEN <<>>
    ELSE LET m == agg_re_search(Head(aggs))
         IN  (IF m.matched THEN <<Label(m.name, safuncs(m.oper), m.col)>> ELSE <<>>)
             \o ParsedAggregates(Tail(aggs))

\* C8: with groups and aggs both non-empty the projection is the group
\* columns followed by one aliased aggregate per parsed spec, narrowed in
\* order to the names in selects when selects is non-empty, and the query
\* is grouped by all the group columns; otherwise the projection is selects,
\* or every column when selects is empty, and nothing is grouped.
GroupedProjection ==
    (call.fn = "select" /\ call.query.error = "none") =>
        LET selects == Strs(call.kw._selects)
            groups  == Strs(call.kw._groups)
            aggs    == Strs(call.kw._aggs)
            full    == [k \in 1..Len(groups) |-> Column(groups[k])] \o ParsedAggregates(aggs)
            Named(c) == \E k \in 1..Len(selects) : selects[k] = c.key
        IN  IF groups # <<>> /\ aggs # <<>>
            THEN /\ call.query.group_by = groups
                 /\ call.query.columns = IF selects # <<>> THEN SelectSeq(full, Named) ELSE full
            ELSE /\ call.query.group_by = <<>>
                 /\ call.query.columns =
                        IF selects # <<>> THEN [k \in 1..Len(selects) |-> Column(selects[k])]
                        ELSE [k \in 1..Len(TableColumnSeq) |-> Column(TableColumnSeq[k])]

\* groups=[a], aggs=[t:sum(b)], selects=[a]: only a is projected, a is grouped by
GroupedProjectionNarrowed ==
    /\ call.fn = "select"
    /\ call.query.error = "none"
    /\ Strs(call.kw._groups) = <<<<"a">>>>
    /\ Strs(call.kw._aggs) = <<SumB>>
    /\ Strs(call.kw._selects) = <<<<"a">>>>
    /\ call.query.columns = <<Column(<<"a">>)>>
    /\ call.query.group_by = <<<<"a">>>>

(***************************************************************************)
(* The renderer on its own: every format list of up to MaxFormats tokens,  *)
(* with and without a configured override and default.                     *)
(***************************************************************************)
FormatTokens == {Json, Csv, Html, Xml}

InitRender ==
    /\ \E o \in {Absent, RawScalar(PyStr(Html))}, d \in {Absent, RawList(<<PyStr(Csv), PyStr(Json)>>)} :
          qconfig = setup([NoConfig EXCEPT !["format"] = o], [NoConfig EXCEPT !["format"] = d])
    /\ drivers = <<>>
    /\ engines = 0
    /\ table = InitialTable
    /\ dialect = "sqlite"
    /\ handler = <<>>
    /\ call = NotCalled

CallRender ==
    /\ call = NotCalled
    /\ \E f \in Strings(FormatTokens, MaxFormats) :
          call' = [fn |-> "render",
                   formats |-> Strs(formats_of(qconfig, [NoArguments EXCEPT !["format"] = f])),
                   ret |-> _render(qconfig, [NoArguments EXCEPT !["format"] = f],
                                   EmptyDataFrame)]
    /\ UNCHANGED <<qconfig, drivers, engines, table, dialect, handler>>

NextRender == CallRender

SpecRender == InitRender /\ [][NextRender]_vars

Recognized == {Json, Csv, Html}

FormatName(token) ==
    CASE token = Json -> "json" [] token = Csv -> "csv" [] token = Html -> "html"

HasRecognized(formats) == \E k \in 1..Len(formats) : formats[k] \in Recognized

FirstRecognized(formats) ==
    formats[Min({k \in 1..Len(formats) : formats[k] \in Recognized})]

\* C6 as stated: the format is the first recognized token of the resolved
\* format list, in the order of the list; with no recognized token the
\* renderer fails with the unsupported-format error and sets no content.
RenderFirstRecognized ==
    call.fn = "render" =>
        IF HasRecognized(call.formats)
        THEN /\ call.ret.error = "none"
             /\ call.ret.content.set
             /\ call.ret.content.format = FormatName(FirstRecognized(call.formats))
        ELSE /\ call.ret.error = "NotImplementedError"
             /\ ~call.ret.content.set

\* C6 as amended: the format is json when json is anywhere in the resolved
\* format list, else csv when csv is in it, else html when html is in it,
\* whatever the order of the list (json when no format is given); with no
\* recognized token the renderer fails with the unsupported-format error and
\* sets no content.
RenderByPreference ==
    call.fn = "render" =>
        LET given == {call.formats[k] : k \in 1..Len(call.formats)}
        IN  /\ Json \in given =>
                call.ret.error = "none" /\ call.ret.content.set /\ call.ret.content.format = "json"
            /\ (Json \notin given /\ Csv \in given) =>
                call.ret.error = "none" /\ call.ret.content.set /\ call.ret.content.format = "csv"
            /\ (Json \notin given /\ Csv \notin given /\ Html \in given) =>
                call.ret.error = "none" /\ call.ret.content.set /\ call.ret.content.format = "html"
            /\ given \cap Recognized = {} =>
                call.ret.error = "NotImplementedError" /\ ~call.ret.content.set

\* csv is given before json and json is rendered
RenderJsonOverCsv ==
    /\ call.fn = "render"
    /\ Len(call.formats) = 2
    /\ call.formats[1] = Csv
    /\ call.formats[2] = Json
    /\ call.ret.content.set
    /\ call.ret.content.format = "json"

(***************************************************************************)
(* The request coroutines.  get, post, put and delete resolve their        *)
(* clauses on the event loop and submit the driver method to the thread    *)
(* pool; the worker runs _sqlalchemy_gettable (test, create_engine, store, *)
(* read, each a step other workers interleave with) and then compiles and  *)
(* executes its statement; the coroutine resumes with the result, or with  *)
(* the exception the worker raised, and renders.  The handler object is    *)
(* dropped when its request has finished.                                  *)
(***************************************************************************)
driver_key == "route"

NoKwargs == Kwargs(None, None, None, None, PyNone, PyNone, None)

NoQuery == Failed("none")

New ==
    [pc |-> "new", method |-> "", arguments |-> NoArguments, kwargs |-> NoKwargs,
     engine |-> 0, driver_engine |-> 0, statement |-> NoStatement, query |-> NoQuery,
     result |-> EmptyDataFrame, content |-> NoContent, headers |-> NoHeaders,
     error |-> "none", entry |-> [table |-> <<>>, drivers |-> <<>>]]

Collected == [New EXCEPT !.pc = "collected"]

First(v) == v.items[1]

Submit(r, method, arguments, kwargs) ==
    /\ handler[r].pc = "new"
    /\ handler' = [handler EXCEPT ![r] =
                      [New EXCEPT !.pc = "submitted", !.method = method,
                                  !.arguments = arguments, !.kwargs = kwargs,
                                  !.entry = [table |-> table, drivers |-> drivers]]]
    /\ UNCHANGED <<qconfig, drivers, engines, table, dialect, call>>

get(r, arguments) ==
    Submit(r, "GET", arguments,
           Kwargs(getq(qconfig, arguments, "select", None),
                  getq(qconfig, arguments, "where", None),
                  getq(qconfig, arguments, "groupby", None),
                  getq(qconfig, arguments, "agg", None),
                  First(getq(qconfig, arguments, "offset", List(<<PyNone>>))),
                  First(getq(qconfig, arguments, "limit", List(<<PyInt(100)>>))),
                  getq(qconfig, arguments, "sort", None)))

post(r, arguments) ==
    Submit(r, "POST", arguments,
           [NoKwargs EXCEPT !._vals = getq(qconfig, arguments, "val", List(<<>>))])

delete(r, arguments) ==
    Submit(r, "DELETE", arguments,
           [NoKwargs EXCEPT !._wheres = getq(qconfig, arguments, "where", None)])

put(r, arguments) ==
    Submit(r, "PUT", arguments,
           [NoKwargs EXCEPT !._vals = getq(qconfig, arguments, "val", List(<<>>)),
                            !._wheres = getq(qconfig, arguments, "where", None)])

Raise(r, error) == [handler EXCEPT ![r].pc = "raised", ![r].error = error]

\* the checks _sqlalchemy_delete and _sqlalchemy_put make before they touch the table
Precondition_Unchecked(method, kw) == "none"

Precondition(method, kw) ==
    CASE method = "DELETE" /\ ~ListTruthy(kw._wheres) -> "HTTPError 404"
      [] method = "PUT" /\ ~ListTruthy(kw._vals)      -> "HTTPError 404"
      [] method = "PUT" /\ ~ListTruthy(kw._wheres)    -> "HTTPError 404"
      [] OTHER                                        -> "none"

\* the worker starts: the precondition, then `if self.driver_key not in drivers`
WorkerStart(r) ==
    /\ handler[r].pc = "submitted"
    /\ handler' =
          IF Precondition(handler[r].method, handler[r].kwargs) # "none"
          THEN Raise(r, Precondition(handler[r].method, handler[r].kwargs))
          ELSE IF driver_key \notin DOMAIN drivers
          THEN [handler EXCEPT ![r].pc = "create"]
          ELSE [handler EXCEPT ![r].pc = "read"]
    /\ UNCHANGED <<qconfig, drivers, engines, table, dialect, call>>

\* sa.create_engine(...) returns a new engine
CreateEngine(r) ==
    /\ handler[r].pc = "create"
    /\ engines' = engines + 1
    /\ handler' = [handler EXCEPT ![r].pc = "store", ![r].engine = engines + 1]
    /\ UNCHANGED <<qconfig, drivers, table, dialect, call>>

\* drivers[self.driver_key] = <the engine>
StoreEngine(r) ==
    /\ handler[r].pc = "store"
    /\ drivers' = [k \in DOMAIN drivers \cup {driver_key} |->
                      IF k = driver_key THEN handler[r].engine ELSE drivers[k]]
    /\ handler' = [handler EXCEPT ![r].pc = "read"]
    /\ UNCHANGED <<qconfig, engines, table, dialect, call>>

\* self.driver_engine = drivers[self.driver_key]
ReadEngine(r) ==
    /\ handler[r].pc = "read"
    /\ handler' = [handler EXCEPT ![r].pc = "execute",
                                  ![r].driver_engine = drivers[driver_key]]
    /\ UNCHANGED <<qconfig, drivers, engines, table, dialect, call>>

Return(r, statement, result) ==
    [handler EXCEPT ![r].pc = "returned", ![r].statement = statement, ![r].result = result]

Selected(r, query, frame) ==
    IF frame.error # "none" THEN [Raise(r, frame.error) EXCEPT ![r].query = query]
    ELSE [Return(r, Statement("select", query.where, <<>>), frame) EXCEPT ![r].query = query]

Compiled(r, query) ==
    IF query.error # "none" THEN Raise(r, query.error)
    ELSE Selected(r, query, read_sql_query(dialect, query, table))

\* _sqlalchemy after gettable: the query, and the frame the backend returns
ExecuteSelect(r) ==
    /\ table' = table
    /\ handler' = Compiled(r, _sqlalchemy(handler[r].kwargs))

Inserted(r, content) ==
    IF content.error # "none"
    THEN table' = table /\ handler' = Raise(r, content.error)
    ELSE IF ~(DOMAIN content.dict \subseteq TableColumns)
    THEN table' = table /\ handler' = Raise(r, "CompileError")
    ELSE /\ table' = InsertRow(table, content.dict)
         /\ handler' = Return(r, Statement("insert", <<>>, content.dict), EmptyDataFrame)

\* _sqlalchemy_post after gettable
ExecuteInsert(r) == Inserted(r, Content(handler[r].kwargs._vals.items))

Deleted(r, wheres) ==
    IF wheres.error # "none"
    THEN table' = table /\ handler' = Raise(r, wheres.error)
    ELSE /\ table' = DeleteRows(dialect, wheres.conds, table)
         /\ handler' = Return(r, Statement("delete", wheres.conds, <<>>), EmptyDataFrame)

\* _sqlalchemy_delete after gettable
ExecuteDelete(r) == Deleted(r, _sqlalchemy_wheres(handler[r].kwargs._wheres.items))

Updated(r, content, wheres) ==
    IF content.error # "none"
    THEN table' = table /\ handler' = Raise(r, content.error)
    ELSE IF wheres.error # "none"
    THEN table' = table /\ handler' = Raise(r, wheres.error)
    ELSE IF ~(DOMAIN content.dict \subseteq TableColumns)
    THEN table' = table /\ handler' = Raise(r, "CompileError")
    ELSE /\ table' = UpdateRows(dialect, wheres.conds, content.dict, table)
         /\ handler' = Return(r, Statement("update", wheres.conds, content.dict),
                              EmptyDataFrame)

\* _sqlalchemy_put after gettable
ExecuteUpdate(r) ==
    Updated(r, Content(handler[r].kwargs._vals.items),
            _sqlalchemy_wheres(handler[r].kwargs._wheres.items))

WorkerExecute(r) ==
    /\ handler[r].pc = "execute"
    /\ CASE handler[r].method = "GET"    -> ExecuteSelect(r)
         [] handler[r].method = "POST"   -> ExecuteInsert(r)
         [] handler[r].method = "DELETE" -> ExecuteDelete(r)
         [] handler[r].method = "PUT"    -> ExecuteUpdate(r)
    /\ UNCHANGED <<qconfig, drivers, engines, dialect, call>>

Written(r, rendered) ==
    IF rendered.error # "none"
    THEN [handler EXCEPT ![r].pc = "error", ![r].error = rendered.error]
    ELSE [handler EXCEPT ![r].pc = "done", ![r].headers = rendered.headers,
                         ![r].content = rendered.content]

\* the coroutine after its yield: the worker's exception, or _render and write
Resume(r) ==
    /\ handler[r].pc \in {"returned", "raised"}
    /\ handler' =
          IF handler[r].pc = "raised" THEN [handler EXCEPT ![r].pc = "error"]
          ELSE Written(r, _render(qconfig, handler[r].arguments, handler[r].result))
    /\ UNCHANGED <<qconfig, drivers, engines, table, dialect, call>>

\* the request has finished and its handler is dropped
Finish(r) ==
    /\ handler[r].pc \in {"done", "error"}
    /\ handler' = [handler EXCEPT ![r] = Collected]
    /\ UNCHANGED <<qconfig, drivers, engines, table, dialect, call>>

Worker(r) ==
    \/ WorkerStart(r)
    \/ CreateEngine(r)
    \/ StoreEngine(r)
    \/ ReadEngine(r)
    \/ WorkerExecute(r)

(***************************************************************************)
(* Requests served one after the other, over every method, with the where, *)
(* val, offset, limit and format values a request can send and three       *)
(* route configurations of the limit clause.                               *)
(***************************************************************************)
A1 == <<"a", "=", "1">>
B3 == <<"b", "=", "3">>
Bare == <<"a">>
Blank == <<" ">>

Arguments(where, val, offset, limit, format) ==
    [NoArguments EXCEPT !["where"] = where, !["val"] = val, !["offset"] = offset,
                        !["limit"] = limit, !["format"] = format]

WhereArguments == {<<>>, <<A1>>, <<Bare>>, <<<<"a", "<", ">", "1">>>>}

GetArguments ==
    {Arguments(w, <<>>, o, l, f) :
        w \in {<<>>, <<A1>>, <<Bare>>}, o \in {<<>>, <<<<"1">>>>},
        l \in {<<>>, <<Blank>>, <<<<"0">>>>, <<<<"1">>>>},
        f \in {<<>>, <<Csv, Json>>, <<Xml>>}}

PostArguments ==
    {Arguments(<<>>, v, <<>>, <<>>, f) : v \in {<<>>, <<B3>>, <<Bare>>}, f \in {<<>>, <<Xml>>}}

DeleteArguments ==
    {Arguments(w, <<>>, <<>>, <<>>, f) : w \in WhereArguments, f \in {<<>>, <<Xml>>}}

PutArguments ==
    {Arguments(w, v, <<>>, <<>>, f) : w \in WhereArguments, v \in {<<>>, <<B3>>}, f \in {<<>>, <<Xml>>}}

Requests == 1..MaxRequests

Init ==
    /\ \E o \in {Absent, RawScalar(PyInt(0))}, d \in {Absent, RawScalar(PyInt(1))} :
          qconfig = setup([NoConfig EXCEPT !["limit"] = o], [NoConfig EXCEPT !["limit"] = d])
    /\ drivers = <<>>
    /\ engines = 0
    /\ table = InitialTable
    /\ dialect = "sqlite"
    /\ handler = [r \in Requests |-> New]
    /\ call = NotCalled

\* request r is the next to arrive and no other request is being served
Serial(r) ==
    /\ \A q \in Requests \ {r} : handler[q].pc \in {"new", "collected"}
    /\ \A q \in Requests : q < r => handler[q].pc = "collected"

Next ==
    \E r \in Requests :
        \/ Serial(r) /\ \E a \in GetArguments : get(r, a)
        \/ Serial(r) /\ \E a \in PostArguments : post(r, a)
        \/ Serial(r) /\ \E a \in DeleteArguments : delete(r, a)
        \/ Serial(r) /\ \E a \in PutArguments : put(r, a)
        \/ Worker(r)
        \/ Resume(r)
        \/ Finish(r)

Spec == Init /\ [][Next]_vars

\* the request's resolved clauses fail the check its driver method starts with
Invalid(r) ==
    \/ handler[r].method = "DELETE" /\ ~ListTruthy(handler[r].kwargs._wheres)
    \/ handler[r].method = "PUT" /\ ~ListTruthy(handler[r].kwargs._vals)
    \/ handler[r].method = "PUT" /\ ~ListTruthy(handler[r].kwargs._wheres)

Started(r) == handler[r].pc \notin {"new", "submitted", "collected"}

\* C3: a DELETE whose resolved where list is empty, and a PUT whose resolved
\* val list or where list is empty, fails with HTTPError NOT_FOUND and
\* executes no statement: the table and the connection cache are as they
\* were when the request arrived.
ValidationRejects ==
    \A r \in Requests :
        (Started(r) /\ Invalid(r)) =>
            /\ handler[r].pc \in {"raised", "error"}
            /\ handler[r].error = "HTTPError 404"
            /\ handler[r].statement = NoStatement
            /\ handler[r].driver_engine = 0
            /\ table = handler[r].entry.table
            /\ drivers = handler[r].entry.drivers

\* a PUT with a val and no where has ended in the validation error
PutWithoutWhereRejected ==
    \E r \in Requests :
        /\ handler[r].method = "PUT"
        /\ ListTruthy(handler[r].kwargs._vals)
        /\ ~ListTruthy(handler[r].kwargs._wheres)
        /\ handler[r].pc = "error"
        /\ handler[r].error = "HTTPError 404"
        /\ table = handler[r].entry.table

\* C5: every select executed for a GET carries a row limit: 100 when no
\* limit is resolved from override, request or default, and a limit whenever
\* the request supplies a limit value and the route configures no override.
SelectCarriesLimit ==
    \A r \in Requests :
        (handler[r].method = "GET" /\ handler[r].statement.kind = "select") =>
            /\ ( /\ ~ListTruthy(qconfig.query["limit"])
                 /\ handler[r].arguments["limit"] = <<>>
                 /\ ~ListTruthy(qconfig.default["limit"]) )
               => handler[r].query.limit = Set(100)
            /\ ( /\ ~ListTruthy(qconfig.query["limit"])
                 /\ handler[r].arguments["limit"] # <<>> )
               => handler[r].query.limit.set

\* C9: every delete or update statement that reaches the backend is
\* filtered by at least one parsed condition.
MutationIsFiltered ==
    \A r \in Requests :
        handler[r].statement.kind \in {"delete", "update"} =>
            Len(handler[r].statement.where) >= 1

\* C10: a POST, PUT or DELETE request that ends in an error has performed
\* no backend mutation: the table is as it was when the request arrived.
FailedMutationLeavesTable ==
    \A r \in Requests :
        (handler[r].method \in {"POST", "PUT", "DELETE"} /\ handler[r].pc = "error") =>
            table = handler[r].entry.table

(***************************************************************************)
(* First-time requests in flight together: NumThreads GET requests of one  *)
(* route, their workers interleaved step by step on the thread pool, with  *)
(* no entry for the route in `drivers` at the start.                       *)
(***************************************************************************)
Threads == 1..NumThreads

CacheArguments ==
    {Arguments(w, <<>>, <<>>, <<>>, <<>>) : w \in {<<>>, <<A1>>, <<<<"z", "=", "1">>>>}}

InitCache ==
    /\ qconfig = setup(NoConfig, NoConfig)
    /\ drivers = <<>>
    /\ engines = 0
    /\ table = InitialTable
    /\ dialect = "sqlite"
    /\ handler = [r \in Threads |-> New]
    /\ call = NotCalled

NextCache ==
    \E r \in Threads :
        \/ \E a \in CacheArguments : get(r, a)
        \/ Worker(r)
        \/ Resume(r)
        \/ Finish(r)

SpecCache == InitCache /\ [][NextCache]_vars

\* C1: whatever the interleaving of the requests that find no entry for the
\* route, create_engine is executed once, and every request that has read
\* its engine holds the engine that `drivers` has for the route.
SingleEngine ==
    /\ engines <= 1
    /\ \A r \in Threads :
          handler[r].driver_engine # 0 =>
              /\ driver_key \in DOMAIN drivers
              /\ handler[r].driver_engine = drivers[driver_key]
====
